---- MODULE Spec2Model ----
(***************************************************************************)
(* Model of the EPUB reader of pdf-epub-converter:                         *)
(*   - App / FileUploader / EpubReader / PageViewer / ReaderControls /     *)
(*     TableOfContents (frontend/src): loading a package and paginating,   *)
(*   - the text selection engine of the selection test page                *)
(*     (mousedown / mousemove / mouseup / click / keydown handlers),       *)
(*   - PdfUploader (upload, conversion answer, status polling).            *)
(* React state updates issued in one synchronous run of a handler are      *)
(* taken as one step (batched commit).                                     *)
(***************************************************************************)
EXTENDS Integers, Sequences, FiniteSets, TLC

(***************************************************************************)
(* Bounds                                                                  *)
(***************************************************************************)
MaxSpine == 3        \* longest list of spine itemrefs of a generated package
MaxFetches == 1      \* sample fetches that may be pending at the same time
MaxRenders == 1      \* processPageContent calls that may be suspended at the same time
MaxUrls == 2         \* object URLs created in one session
MaxWrites == 1       \* clipboard writes that may be pending at the same time
MaxConversions == 1  \* conversions of the PDF uploader in flight at the same time
MaxPolls == 2        \* status requests of one conversion

(***************************************************************************)
(* JavaScript values                                                       *)
(***************************************************************************)
Null == [null |-> TRUE]          \* null where an object may stand
EmptyObject == [empty |-> TRUE]  \* {}
NoText == "null"                 \* null where a string may stand
Undefined == "undefined"
UndefinedCoord == -1             \* undefined where a pointer coordinate may stand
XHTML == "application/xhtml+xml"
CSS == "text/css"
ParseError == "Failed to parse EPUB file. Please ensure it's a valid EPUB format."

Range(s) == {s[k] : k \in 1..Len(s)}

SeqsUpTo(S, n) == UNION {[1..k -> S] : k \in 0..n}

(***************************************************************************)
(* Packages (the archive handed to parseEpub)                              *)
(***************************************************************************)
Ids == {"p1", "p2", "p3"}
\* names every plain object inherits from Object.prototype
ObjectPrototypeKeys == {"constructor"}
IdRefs == Ids \cup ObjectPrototypeKeys

HrefOf(id) == CASE id = "p1" -> "ch1.xhtml"
                [] id = "p2" -> "ch2.xhtml"
                [] id = "p3" -> "ch3.xhtml"

\* what the package holds for a manifest id:
\*   absent  : no manifest item with this id
\*   css     : manifest item of another media type, entry present
\*   ok      : markup item, entry present and readable
\*   missing : markup item, no such entry in the archive
\*   corrupt : markup item, entry present, reading it rejects
Kinds == {"absent", "css", "ok", "missing", "corrupt"}

\* what is wrong with the package:
\*   zip          : zip.loadAsync rejects
\*   nocontainer  : no entry META-INF/container.xml
\*   badcontainer : container.xml is not well-formed, the document DOMParser
\*                  returns for it has no rootfile element
\*   badcontainerRootfile : container.xml is not well-formed after its
\*                  rootfile element, the document DOMParser returns keeps
\*                  what was parsed before the error (WebKit, Blink)
\*   norootfile   : container.xml is well-formed and has no rootfile element
\*   noopf        : no entry at the rootfile's full-path
\*   badopf       : the package descriptor is not well-formed; title, manifest
\*                  and itemrefs are what the document DOMParser returns for
\*                  it holds (nothing, or what was parsed before the error)
Faults == {"none", "zip", "nocontainer", "badcontainer", "badcontainerRootfile",
           "norootfile", "noopf", "badopf"}

\* markup as the nodes that matter: paragraphs, images, text inputs
Node(tag, src, text) == [tag |-> tag, src |-> src, text |-> text]

\* sources that start with 'http' or 'data:'
AbsoluteSrcs == {"http://cdn/logo.png", "data:image/png;base64,AA=="}

Package(title, fault, itemrefs, kinds) ==
  [ title    |-> title,
    fault    |-> fault,
    itemrefs |-> itemrefs,
    manifest |-> [id \in {j \in Ids : kinds[j] # "absent"} |->
                    [href |-> HrefOf(id),
                     mediaType |-> IF kinds[id] = "css" THEN CSS ELSE XHTML]],
    entries  |-> [h \in {HrefOf(j) : j \in {j \in Ids : kinds[j] \in {"css", "ok", "corrupt"}}} |->
                    IF \E j \in Ids : HrefOf(j) = h /\ kinds[j] = "corrupt"
                    THEN "corrupt" ELSE "ok"],
    contents |-> [h \in {HrefOf(j) : j \in {j \in Ids : kinds[j] \in {"css", "ok", "corrupt"}}} |->
                    <<Node("p", NoText, title \o "/" \o h)>>],
    assets   |-> <<>> ]

\* a package with the given text of its entries and the given image entries
\* (path |-> "ok", or "corrupt" where reading the image rejects)
WithContents(p, contents, assets) ==
  [p EXCEPT !.contents = contents, !.assets = assets]

\* the files the user picks in the concurrent reader
BookB ==
  Package("B", "none", <<"p1", "p2", "p3">>,
          [j \in Ids |-> IF j = "p2" THEN "absent" ELSE "ok"])
BookEmpty ==
  Package("E", "none", <<"p2">>,
          [j \in Ids |-> IF j = "p2" THEN "css" ELSE "absent"])
BookBroken ==
  Package("X", "nocontainer", <<"p1">>, [j \in Ids |-> "ok"])
SampleEpub ==
  Package("S", "none", <<"p3", "p2", "p1">>,
          [j \in Ids |-> IF j = "p2" THEN "corrupt" ELSE "ok"])

Library == {BookB, BookEmpty, BookBroken, SampleEpub}

\* a book with images: page 1 shows page.png and a remote logo, the entry of
\* page 2 is an empty file, page 3 shows page.png again, an image that is not
\* in the archive, and a text input
BookView ==
  WithContents(
    Package("V", "none", <<"p1", "p2", "p3">>, [j \in Ids |-> "ok"]),
    [h \in {"ch1.xhtml", "ch2.xhtml", "ch3.xhtml"} |->
       CASE h = "ch1.xhtml" -> <<Node("p", NoText, "one"),
                                 Node("img", "page.png", NoText),
                                 Node("img", "http://cdn/logo.png", NoText)>>
         [] h = "ch2.xhtml" -> <<>>
         [] h = "ch3.xhtml" -> <<Node("img", "page.png", NoText),
                                 Node("img", "gone.png", NoText),
                                 Node("input", NoText, NoText)>>],
    [a \in {"page.png"} |-> "ok"])

(***************************************************************************)
(* The selection page: its elements and their layout                       *)
(***************************************************************************)
GridX == 3           \* pointer x positions: 0, 4, 10, ..., 10 * GridX
GridY == 1           \* pointer y positions: 0, 10, ..., 10 * GridY

PointerXs == {0, 4} \cup {10 * k : k \in 1..GridX}
PointerYs == {10 * k : k \in 0..GridY}

DragThreshold == 5   \* distance > 5
BoxBorder == 2       \* selectionBox.style.border = '2px solid #007bff'
SelectedBorder == 2  \* .text-element.selected { border: 2px solid blue !important }

\* the text elements, numbered in document order
TextElements == {1, 2, 3}

DataText(e) == CASE e = 1 -> "Sample" [] e = 2 -> "PDF" [] e = 3 -> "This"

\* border box of an element that is not selected (px, viewport)
Box(e) == CASE e = 1 -> [left |-> 10, top |-> 0, right |-> 20, bottom |-> 6]
            [] e = 2 -> [left |-> 16, top |-> 4, right |-> 24, bottom |-> 20]
            [] e = 3 -> [left |-> 30, top |-> 10, right |-> 38, bottom |-> 16]

\* event targets
NoTarget == [class |-> "none"]
Element(e) == [class |-> "text-element", el |-> e]
Other(class) == [class |-> class]
Targets ==
  {Element(e) : e \in TextElements} \cup
  {Other(c) : c \in {"page-image", "debug-info", "body"}}

\* the chain from a target up to body
Ancestors(t) ==
  CASE t.class = "text-element"   -> <<t, Other("text-layer"), Other("page-container"), Other("body")>>
    [] t.class = "text-layer"     -> <<t, Other("page-container"), Other("body")>>
    [] t.class = "page-image"     -> <<t, Other("page-container"), Other("body")>>
    [] t.class = "page-container" -> <<t, Other("body")>>
    [] t.class = "debug-info"     -> <<t, Other("body")>>
    [] t.class = "body"           -> <<t>>

\* the target of the click a press on down and a release on up give:
\* their nearest common inclusive ancestor
ClickTarget(down, up) ==
  LET a == Ancestors(down)
      k == CHOOSE k \in 1..Len(a) :
             /\ a[k] \in Range(Ancestors(up))
             /\ \A j \in 1..(k - 1) : a[j] \notin Range(Ancestors(up))
  IN a[k]

(***************************************************************************)
(* State                                                                   *)
(***************************************************************************)
VARIABLES
  epubFile,          \* App: epubFile
  isReading,         \* App: isReading (EpubReader is mounted)
  sampleFetches,     \* FileUploader.loadSampleEpub: fetches still pending
  isLoading,         \* EpubReader state
  error,
  epubData,
  currentPageIndex,
  pages,
  bookMetadata,
  loads,             \* parseEpub invocations of the mounted reader, suspended on an await
  processedContent,  \* PageViewer state: the markup displayed
  scrollTop,         \* ViewerContainer.scrollTop: 0, or 1 when scrolled down
  renders,           \* processPageContent calls suspended on an image read
  objectUrls,        \* the paths URL.createObjectURL was called for, in call order
  selectedElements,  \* selection page: the Set, in insertion order
  isSelecting,
  startX,
  startY,
  selectionBox,      \* null, or the style of the box element
  button,            \* "up", or the target of the mousedown while the button is held
  pendingClick,      \* "none", or the target of the click that follows the mouseup
  boxElements,       \* selection page: the selection box elements in document.body
  clipboardWrites,   \* navigator.clipboard.writeText promises still pending
  showPdfUploader,   \* App: showPdfUploader (PdfUploader is mounted)
  isConverting,      \* PdfUploader state
  conversionStatus,
  downloadUrl,
  progress,
  conversions,       \* PdfUploader: the upload calls still in flight
  last               \* the operation that acted last (history)

readerVars == <<isLoading, error, epubData, currentPageIndex, pages, bookMetadata>>
viewerVars == <<processedContent, scrollTop, renders>>
appVars == <<epubFile, isReading, sampleFetches, readerVars, loads, viewerVars, objectUrls>>
selVars == <<selectedElements, isSelecting, startX, startY, selectionBox,
             button, pendingClick, boxElements, clipboardWrites>>
pdfVars == <<showPdfUploader, isConverting, conversionStatus, downloadUrl, progress,
             conversions>>
vars == <<appVars, selVars, pdfVars, last>>

(***************************************************************************)
(* parseEpub, pure parts                                                   *)
(***************************************************************************)
Fallback(v, d) == IF v = NoText THEN d ELSE v

Metadata(p) ==
  [ title       |-> Fallback(p.title, "Unknown Title"),
    creator     |-> Fallback(NoText, "Unknown Author"),
    description |-> Fallback(NoText, ""),
    language    |-> Fallback(NoText, "en") ]

\* manifest[idref] of a plain object: own property, else inherited from Object.prototype
ManifestGet(manifest, idref) ==
  IF idref \in DOMAIN manifest THEN manifest[idref]
  ELSE IF idref \in ObjectPrototypeKeys THEN [href |-> Undefined, mediaType |-> Undefined]
  ELSE Null

SpineItem(manifest, idref) ==
  [id |-> idref, href |-> ManifestGet(manifest, idref).href,
   mediaType |-> ManifestGet(manifest, idref).mediaType]

RECURSIVE BuildSpine(_, _)
BuildSpine(manifest, itemrefs) ==
  IF itemrefs = <<>> THEN <<>>
  ELSE IF ManifestGet(manifest, Head(itemrefs)) # Null
       THEN <<SpineItem(manifest, Head(itemrefs))>> \o BuildSpine(manifest, Tail(itemrefs))
       ELSE BuildSpine(manifest, Tail(itemrefs))

\* mutant: the media type of the spine item is not looked at
PageLoopNoMediaType(p, spine, i) ==
  IF i >= Len(spine) THEN i
  ELSE IF \E j \in (i + 1)..Len(spine) : spine[j].href \in DOMAIN p.entries
       THEN CHOOSE j \in i..(Len(spine) - 1) :
              /\ spine[j + 1].href \in DOMAIN p.entries
              /\ \A m \in (i + 1)..j : spine[m].href \notin DOMAIN p.entries
       ELSE Len(spine)

\* the page loop from index i (0-based) up to its next await or its end
RECURSIVE PageLoop(_, _, _)
PageLoop(p, spine, i) ==
  IF i >= Len(spine) THEN i
  ELSE IF spine[i + 1].mediaType = XHTML /\ spine[i + 1].href \in DOMAIN p.entries
       THEN i
       ELSE PageLoop(p, spine, i + 1)

\* title: `Page ${i + 1}`, i the index of the item in the spine
PageOf(p, item, i) ==
  [id |-> item.id, href |-> item.href, content |-> p.contents[item.href],
   title |-> "Page " \o ToString(i + 1)]

EpubDataOf(p, spine) ==
  [zip |-> p, manifest |-> p.manifest, spine |-> spine, metadata |-> Metadata(p)]

\* the pages a run of the page loop from index i adds to pagesData
RECURSIVE ReadPages(_, _, _, _)
ReadPages(p, spine, i, pagesData) ==
  IF PageLoop(p, spine, i) >= Len(spine) THEN pagesData
  ELSE LET j == PageLoop(p, spine, i)
       IN ReadPages(p, spine, j + 1,
                    IF p.entries[spine[j + 1].href] = "ok"
                    THEN Append(pagesData, PageOf(p, spine[j + 1], j))
                    ELSE pagesData)

\* a parseEpub invocation suspended on its first await; superseded is history:
\* a later parseEpub has been started on the same reader
NewLoad(p) ==
  [file |-> p, pc |-> "loadAsync", spine |-> <<>>, i |-> 0, pagesData |-> <<>>,
   superseded |-> FALSE]

Supersede(s) == [k \in 1..Len(s) |-> [s[k] EXCEPT !.superseded = TRUE]]

Drop(s, k) == SubSeq(s, 1, k - 1) \o SubSeq(s, k + 1, Len(s))

(***************************************************************************)
(* PageViewer.processPageContent, pure parts                               *)
(***************************************************************************)
\* '<div>No content available</div>'
NoContent == <<Node("div", NoText, "No content available")>>

\* the object URL of the n-th call of URL.createObjectURL
ObjectUrl(n) == "blob:" \o ToString(n)

\* the image loop over doc from node k (1-based) up to its next await:
\* the index of the next image with a relative src that zip.file() finds,
\* Len(doc) + 1 when the loop ends
RECURSIVE ImageLoop(_, _, _)
ImageLoop(data, doc, k) ==
  IF data = Null \/ k > Len(doc) THEN Len(doc) + 1
  ELSE IF /\ doc[k].tag = "img"
          /\ doc[k].src # NoText
          /\ doc[k].src \notin AbsoluteSrcs
          /\ doc[k].src \in DOMAIN data.zip.assets
       THEN k
       ELSE ImageLoop(data, doc, k + 1)

\* a processPageContent call suspended on the read of image k; live: the
\* PageViewer that made the call is still mounted
NewRender(data, doc, k) == [data |-> data, doc |-> doc, k |-> k, live |-> TRUE]

\* the PageViewer is unmounted: its state setters and its containerRef are dead
Detach(s) == [r \in 1..Len(s) |-> [s[r] EXCEPT !.live = FALSE]]

\* the PageViewer is rendered: EpubReader is mounted and shows no error
ViewerShown == isReading /\ error = NoText

\* the effect of PageViewer on [pages, currentPageIndex, processPageContent]:
\* processPageContent(pages[currentPageIndex]) up to its first await, from
\* the viewer state content0, scroll0, renders0.  The placeholder of a page
\* without content is one line: the browser clamps scrollTop to 0 where the
\* viewer is high enough to hold it, and leaves scrollTop alone otherwise.
ViewerEffect(pgs, idx, data, content0, scroll0, renders0) ==
  IF idx + 1 \notin 1..Len(pgs)
  THEN processedContent' = content0 /\ scrollTop' = scroll0 /\ renders' = renders0
  ELSE LET page == pgs[idx + 1]
           k == ImageLoop(data, page.content, 1)
       IN IF page.content = <<>>
          THEN /\ processedContent' = NoContent
               /\ scrollTop' \in {0, scroll0}
               /\ renders' = renders0
          ELSE IF k > Len(page.content)
          THEN /\ processedContent' = page.content
               /\ scrollTop' = 0
               /\ renders' = renders0
          ELSE /\ Len(renders0) < MaxRenders
               /\ renders' = Append(renders0, NewRender(data, page.content, k))
               /\ processedContent' = content0
               /\ scrollTop' = scroll0

\* what a commit of EpubReader does to its PageViewer: shown tells whether
\* the viewer is rendered after the commit, due whether pages,
\* currentPageIndex or epubData changed
ViewerStep(shown, due, pgs, idx, data) ==
  IF ~shown
  THEN processedContent' = <<>> /\ scrollTop' = 0 /\ renders' = Detach(renders)
  ELSE IF ~ViewerShown
  THEN ViewerEffect(pgs, idx, data, <<>>, 0, Detach(renders))
  ELSE IF due
  THEN ViewerEffect(pgs, idx, data, processedContent, scrollTop, renders)
  ELSE UNCHANGED viewerVars

(***************************************************************************)
(* Initial state                                                           *)
(***************************************************************************)
ReaderInit ==
  /\ isLoading = TRUE
  /\ error = NoText
  /\ epubData = Null
  /\ currentPageIndex = 0
  /\ pages = <<>>
  /\ bookMetadata = EmptyObject

Unmounted ==
  /\ isLoading' = TRUE
  /\ error' = NoText
  /\ epubData' = Null
  /\ currentPageIndex' = 0
  /\ pages' = <<>>
  /\ bookMetadata' = EmptyObject

\* useState(false), useState(''), useState(''), useState(0)
UploaderInit ==
  /\ isConverting = FALSE
  /\ conversionStatus = ""
  /\ downloadUrl = ""
  /\ progress = 0

SelectionInit ==
  /\ selectedElements = <<>>
  /\ isSelecting = FALSE
  /\ startX = UndefinedCoord
  /\ startY = UndefinedCoord
  /\ selectionBox = Null
  /\ button = NoTarget
  /\ pendingClick = NoTarget
  /\ boxElements = 0
  /\ clipboardWrites = 0

AppInit ==
  /\ epubFile = Null
  /\ isReading = FALSE
  /\ sampleFetches = 0
  /\ loads = <<>>
  /\ processedContent = <<>>
  /\ scrollTop = 0
  /\ renders = <<>>
  /\ objectUrls = <<>>
  /\ last = [op |-> "init"]
  /\ ReaderInit
  /\ SelectionInit
  /\ showPdfUploader = FALSE
  /\ conversions = <<>>
  /\ UploaderInit

Init == AppInit

(***************************************************************************)
(* App and FileUploader                                                    *)
(***************************************************************************)
\* App.handleFileSelect followed by the render it causes: EpubReader is
\* mounted if it is not, and its effect on epubFile starts parseEpub, which
\* runs up to zip.loadAsync
handleFileSelect(file) ==
  /\ epubFile' = file
  /\ isReading' = TRUE
  /\ isLoading' = TRUE
  /\ error' = NoText
  /\ loads' = Append(Supersede(loads), NewLoad(file))
  /\ ViewerStep(TRUE, FALSE, pages, currentPageIndex, epubData)
  /\ UNCHANGED <<epubData, currentPageIndex, pages, bookMetadata, objectUrls>>

\* FileUploader.handleChange / handleDrop with an EPUB file
SelectFile(f) ==
  /\ ~isReading /\ ~showPdfUploader
  /\ handleFileSelect(f)
  /\ last' = [op |-> "select"]
  /\ UNCHANGED sampleFetches
  /\ UNCHANGED <<selVars, pdfVars>>

\* FileUploader.loadSampleEpub up to its fetch
ClickSample ==
  /\ ~isReading /\ ~showPdfUploader
  /\ sampleFetches < MaxFetches
  /\ sampleFetches' = sampleFetches + 1
  /\ last' = [op |-> "sample"]
  /\ UNCHANGED <<epubFile, isReading, readerVars, loads, viewerVars, objectUrls>>
  /\ UNCHANGED <<selVars, pdfVars>>

\* loadSampleEpub after its fetch: response.ok
SampleFetched ==
  /\ sampleFetches > 0
  /\ sampleFetches' = sampleFetches - 1
  /\ handleFileSelect(SampleEpub)
  /\ last' = [op |-> "sampleFetched", swap |-> isReading]
  /\ UNCHANGED <<selVars, pdfVars>>

\* loadSampleEpub after its fetch: not ok, or fetch rejected (alert only)
SampleFailed ==
  /\ sampleFetches > 0
  /\ sampleFetches' = sampleFetches - 1
  /\ last' = [op |-> "sampleFailed"]
  /\ UNCHANGED <<epubFile, isReading, readerVars, loads, viewerVars, objectUrls>>
  /\ UNCHANGED <<selVars, pdfVars>>

\* App.handleBackToLibrary: EpubReader is unmounted, what its parseEpub
\* invocations set afterwards is dropped by React
handleBackToLibrary ==
  /\ isReading \/ showPdfUploader
  /\ epubFile' = Null
  /\ isReading' = FALSE
  /\ loads' = <<>>
  /\ Unmounted
  /\ ViewerStep(FALSE, FALSE, pages, currentPageIndex, epubData)
  /\ showPdfUploader' = FALSE
  /\ isConverting' = FALSE
  /\ conversionStatus' = ""
  /\ downloadUrl' = ""
  /\ progress' = 0
  /\ conversions' = Detach(conversions)
  /\ last' = [op |-> "back"]
  /\ UNCHANGED <<sampleFetches, objectUrls>>
  /\ UNCHANGED selVars

(***************************************************************************)
(* EpubReader.parseEpub, one action per await                              *)
(***************************************************************************)
\* catch and finally
Failed(k) ==
  /\ error' = ParseError
  /\ isLoading' = FALSE
  /\ loads' = Drop(loads, k)
  /\ ViewerStep(FALSE, FALSE, pages, currentPageIndex, epubData)

\* mutant: setCurrentPageIndex(0) is left out
CommittedKeepsIndex(k, spine, pagesData) ==
  /\ pages' = pagesData
  /\ epubData' = EpubDataOf(loads[k].file, spine)
  /\ currentPageIndex' = currentPageIndex
  /\ isLoading' = FALSE
  /\ loads' = Drop(loads, k)
  /\ ViewerStep(error = NoText, TRUE, pagesData, currentPageIndex,
                EpubDataOf(loads[k].file, spine))

\* setPages, setEpubData, setCurrentPageIndex(0) and finally
Committed(k, spine, pagesData) ==
  /\ pages' = pagesData
  /\ epubData' = EpubDataOf(loads[k].file, spine)
  /\ currentPageIndex' = 0
  /\ isLoading' = FALSE
  /\ loads' = Drop(loads, k)
  /\ ViewerStep(error = NoText, TRUE, pagesData, 0, EpubDataOf(loads[k].file, spine))

\* zip.loadAsync(file) settles; zipContent.file('META-INF/container.xml')
ZipLoaded(k) ==
  /\ loads[k].pc = "loadAsync"
  /\ IF loads[k].file.fault \in {"zip", "nocontainer"}
     THEN /\ Failed(k)
          /\ last' = [op |-> "failed", superseded |-> loads[k].superseded]
          /\ UNCHANGED <<epubData, currentPageIndex, pages, bookMetadata>>
     ELSE /\ loads' = [loads EXCEPT ![k].pc = "container"]
          /\ last' = [op |-> "zipLoaded"]
          /\ UNCHANGED <<readerVars, viewerVars>>
  /\ UNCHANGED <<epubFile, isReading, sampleFetches, objectUrls>>
  /\ UNCHANGED <<selVars, pdfVars>>

\* container.xml is read: parseFromString (which does not throw on text
\* that is not well-formed), rootfile, opfPath, zipContent.file(opfPath)
ContainerRead(k) ==
  /\ loads[k].pc = "container"
  /\ IF loads[k].file.fault \in {"badcontainer", "norootfile", "noopf"}
     THEN /\ Failed(k)
          /\ last' = [op |-> "failed", superseded |-> loads[k].superseded]
          /\ UNCHANGED <<epubData, currentPageIndex, pages, bookMetadata>>
     ELSE /\ loads' = [loads EXCEPT ![k].pc = "opf"]
          /\ last' = [op |-> "containerRead"]
          /\ UNCHANGED <<readerVars, viewerVars>>
  /\ UNCHANGED <<epubFile, isReading, sampleFetches, objectUrls>>
  /\ UNCHANGED <<selVars, pdfVars>>

\* the package descriptor is read: parseFromString (which does not throw on
\* text that is not well-formed), metadata, manifest, spine, then the page loop
\* up to its first await
OpfRead(k) ==
  /\ loads[k].pc = "opf"
  /\ LET p == loads[k].file
         spine == BuildSpine(p.manifest, p.itemrefs)
         i == PageLoop(p, spine, 0)
     IN /\ bookMetadata' = Metadata(p)
        /\ IF i >= Len(spine)
           THEN /\ Committed(k, spine, <<>>)
                /\ last' = [op |-> "committed", superseded |-> loads[k].superseded]
                /\ UNCHANGED error
           ELSE /\ loads' = [loads EXCEPT ![k].pc = "page", ![k].spine = spine, ![k].i = i]
                /\ last' = [op |-> "opfRead", superseded |-> loads[k].superseded]
                /\ UNCHANGED <<isLoading, error, epubData, currentPageIndex, pages,
                               viewerVars>>
  /\ UNCHANGED <<epubFile, isReading, sampleFetches, objectUrls>>
  /\ UNCHANGED <<selVars, pdfVars>>

\* mutant: a rejected read is not caught inside the loop
PageReadAborts(k) ==
  /\ loads[k].pc = "page"
  /\ LET p == loads[k].file
         spine == loads[k].spine
         item == spine[loads[k].i + 1]
         pagesData == Append(loads[k].pagesData, PageOf(p, item, loads[k].i))
         i == PageLoop(p, spine, loads[k].i + 1)
     IN IF p.entries[item.href] # "ok"
        THEN /\ Failed(k)
             /\ last' = [op |-> "failed", superseded |-> loads[k].superseded]
             /\ UNCHANGED <<epubData, currentPageIndex, pages, bookMetadata>>
        ELSE IF i >= Len(spine)
        THEN /\ Committed(k, spine, pagesData)
             /\ last' = [op |-> "committed", superseded |-> loads[k].superseded]
             /\ UNCHANGED <<error, bookMetadata>>
        ELSE /\ loads' = [loads EXCEPT ![k].i = i, ![k].pagesData = pagesData]
             /\ last' = [op |-> "pageRead"]
             /\ UNCHANGED <<readerVars, viewerVars>>
  /\ UNCHANGED <<epubFile, isReading, sampleFetches, objectUrls>>
  /\ UNCHANGED <<selVars, pdfVars>>

\* the read of spine[i] settles (resolved: push the page; rejected: warn),
\* then the page loop runs up to its next await
PageRead(k) ==
  /\ loads[k].pc = "page"
  /\ LET p == loads[k].file
         spine == loads[k].spine
         item == spine[loads[k].i + 1]
         pagesData == IF p.entries[item.href] = "ok"
                      THEN Append(loads[k].pagesData, PageOf(p, item, loads[k].i))
                      ELSE loads[k].pagesData
         i == PageLoop(p, spine, loads[k].i + 1)
     IN IF i >= Len(spine)
        THEN /\ Committed(k, spine, pagesData)
             /\ last' = [op |-> "committed", superseded |-> loads[k].superseded]
             /\ UNCHANGED <<error, bookMetadata>>
        ELSE /\ loads' = [loads EXCEPT ![k].i = i, ![k].pagesData = pagesData]
             /\ last' = [op |-> "pageRead"]
             /\ UNCHANGED <<readerVars, viewerVars>>
  /\ UNCHANGED <<epubFile, isReading, sampleFetches, objectUrls>>
  /\ UNCHANGED <<selVars, pdfVars>>

(***************************************************************************)
(* Pagination                                                              *)
(***************************************************************************)
\* mutant: pageIndex <= pages.length
handlePageChangeOffByOne(pageIndex) ==
  IF pageIndex >= 0 /\ pageIndex <= Len(pages) THEN pageIndex ELSE currentPageIndex

\* EpubReader.handlePageChange: the index it leaves
handlePageChange(pageIndex) ==
  IF pageIndex >= 0 /\ pageIndex < Len(pages) THEN pageIndex ELSE currentPageIndex

\* PageViewer.handlePreviousPage / ReaderControls.handlePreviousPage
handlePreviousPage ==
  IF currentPageIndex > 0 THEN handlePageChange(currentPageIndex - 1) ELSE currentPageIndex

\* PageViewer.handleNextPage / ReaderControls.handleNextPage
handleNextPage ==
  IF currentPageIndex < Len(pages) - 1 THEN handlePageChange(currentPageIndex + 1)
  ELSE currentPageIndex

ReaderShown == isReading /\ error = NoText

\* processPageContent(pgs[idx]) runs to its end without an await
Synchronous(pgs, idx, data) ==
  /\ idx + 1 \in 1..Len(pgs)
  /\ \/ pgs[idx + 1].content = <<>>
     \/ ImageLoop(data, pgs[idx + 1].content, 1) > Len(pgs[idx + 1].content)

\* shown: the page of the new index is displayed by the end of the step
Navigated(op, arg, index) ==
  /\ ReaderShown
  /\ currentPageIndex' = index
  /\ ViewerStep(TRUE, index # currentPageIndex, pages, index, epubData)
  /\ last' = [op |-> op, arg |-> arg, pre |-> currentPageIndex,
               shown |-> (index # currentPageIndex /\ Synchronous(pages, index, epubData))]
  /\ UNCHANGED <<epubFile, isReading, sampleFetches, loads,
                 isLoading, error, epubData, pages, bookMetadata, objectUrls>>
  /\ UNCHANGED <<selVars, pdfVars>>

\* the onPageChange / onPageSelect prop called with any index
PageChange(i) == Navigated("goTo", i, handlePageChange(i))

\* TableOfContents: click on the entry of page i
TocSelect(i) == i < Len(pages) /\ Navigated("toc", i, handlePageChange(i))

\* the markup displayed holds a text input that can take the focus
HasInput == \E n \in 1..Len(processedContent) : processedContent[n].tag = "input"

\* ReaderControls buttons, PageViewer navigation areas, and the keydown
\* listener on window for the arrow keys: pressed with the focus on the page
\* ("key") or in a text input of the page ("input")
Via == {"controls", "area", "key", "input"}

PreviousPage(via) ==
  /\ via = "input" => HasInput
  /\ Navigated("previous", via, handlePreviousPage)

NextPage(via) ==
  /\ via = "input" => HasInput
  /\ Navigated("next", via, handleNextPage)

(***************************************************************************)
(* PageViewer                                                              *)
(***************************************************************************)
\* the user scrolls the markup displayed down
Scroll ==
  /\ ViewerShown
  /\ Len(pages) > 0
  /\ processedContent # <<>>
  /\ scrollTop = 0
  /\ scrollTop' = 1
  /\ last' = [op |-> "scroll"]
  /\ UNCHANGED <<epubFile, isReading, sampleFetches, readerVars, loads,
                 processedContent, renders, objectUrls>>
  /\ UNCHANGED <<selVars, pdfVars>>

\* the image read of a suspended processPageContent settles (resolved:
\* createObjectURL and img.src; rejected: warn), then the call runs up to its
\* next await, or to its end: setProcessedContent and the scroll to top
ImageRead(r) ==
  LET call == renders[r]
      src == call.doc[call.k].src
      ok == call.data.zip.assets[src] = "ok"
      doc == IF ok THEN [call.doc EXCEPT ![call.k].src = ObjectUrl(Len(objectUrls) + 1)]
             ELSE call.doc
      k == ImageLoop(call.data, doc, call.k + 1)
  IN /\ ok => Len(objectUrls) < MaxUrls
     /\ objectUrls' = IF ok THEN Append(objectUrls, src) ELSE objectUrls
     /\ IF k > Len(doc)
        THEN /\ renders' = Drop(renders, r)
             /\ processedContent' = IF call.live THEN doc ELSE processedContent
             /\ scrollTop' = IF call.live /\ Len(pages) > 0 THEN 0 ELSE scrollTop
             /\ last' = [op |-> "imageRead", src |-> src, shown |-> call.live]
        ELSE /\ renders' = [renders EXCEPT ![r].doc = doc, ![r].k = k]
             /\ last' = [op |-> "imageRead", src |-> src, shown |-> FALSE]
             /\ UNCHANGED <<processedContent, scrollTop>>
     /\ UNCHANGED <<epubFile, isReading, sampleFetches, readerVars, loads>>
     /\ UNCHANGED <<selVars, pdfVars>>

(***************************************************************************)
(* The selection engine                                                    *)
(***************************************************************************)
Has(sel, e) == e \in Range(sel)

\* Set.add / Set.delete keep insertion order
SetAdd(sel, e) == IF Has(sel, e) THEN sel ELSE Append(sel, e)
SetDelete(sel, e) == SelectSeq(sel, LAMBDA x : x # e)

\* element.getBoundingClientRect(): the selected class adds a border
ElementRect(e, sel) ==
  IF Has(sel, e)
  THEN [Box(e) EXCEPT !.right = @ + 2 * SelectedBorder, !.bottom = @ + 2 * SelectedBorder]
  ELSE Box(e)

\* selectionBox.getBoundingClientRect(): left, top, width, height are the
\* style of a content-box element with a border
BoxRect(box) ==
  [left |-> box.left, top |-> box.top,
   right |-> box.left + box.width + 2 * BoxBorder,
   bottom |-> box.top + box.height + 2 * BoxBorder]

isInSelection(elementRect, rect) ==
  /\ elementRect.left < rect.right
  /\ elementRect.right > rect.left
  /\ elementRect.top < rect.bottom
  /\ elementRect.bottom > rect.top

Min(a, b) == IF a < b THEN a ELSE b
Abs(a) == IF a < 0 THEN -a ELSE a

\* Math.sqrt(dx^2 + dy^2) > 5
BeyondThreshold(x, y) ==
  (x - startX) * (x - startX) + (y - startY) * (y - startY) > DragThreshold * DragThreshold

\* the pointer is over element e
Over(e, x, y) ==
  LET r == ElementRect(e, selectedElements)
  IN r.left <= x /\ x < r.right /\ r.top <= y /\ y < r.bottom

clearSelection == <<>>

\* mutant: the modifier key does not suppress the removal
RECURSIVE SelectOverlappingRemoves(_, _, _, _)
SelectOverlappingRemoves(sel, e, rect, modifier) ==
  IF e \notin TextElements THEN sel
  ELSE LET in == isInSelection(ElementRect(e, sel), rect)
           next == IF in /\ ~Has(sel, e) THEN SetAdd(sel, e)
                   ELSE IF ~in /\ Has(sel, e) THEN SetDelete(sel, e)
                   ELSE sel
       IN SelectOverlappingRemoves(next, e + 1, rect, modifier)

\* the elements.forEach of the mousemove handler, from element e on
RECURSIVE SelectOverlapping(_, _, _, _)
SelectOverlapping(sel, e, rect, modifier) ==
  IF e \notin TextElements THEN sel
  ELSE LET in == isInSelection(ElementRect(e, sel), rect)
           next == IF in /\ ~Has(sel, e) THEN SetAdd(sel, e)
                   ELSE IF ~in /\ Has(sel, e) /\ ~modifier THEN SetDelete(sel, e)
                   ELSE sel
       IN SelectOverlapping(next, e + 1, rect, modifier)

\* mutant: the selection is cleared before every toggle
ClickSelectionAlwaysClears(target, modifier) ==
  IF target.class = "text-element"
  THEN IF Has(clearSelection, target.el) THEN SetDelete(clearSelection, target.el)
       ELSE SetAdd(clearSelection, target.el)
  ELSE IF target.class # "debug-info" THEN clearSelection ELSE selectedElements

\* mutant: the selection is not cleared before the toggle
ClickSelectionNoClear(target, modifier) ==
  IF target.class = "text-element"
  THEN IF Has(selectedElements, target.el) THEN SetDelete(selectedElements, target.el)
       ELSE SetAdd(selectedElements, target.el)
  ELSE IF target.class # "debug-info" THEN clearSelection ELSE selectedElements

\* the click handler: the selection it leaves
ClickSelection(target, modifier) ==
  IF target.class = "text-element"
  THEN LET sel == IF ~modifier THEN clearSelection ELSE selectedElements
       IN IF Has(sel, target.el) THEN SetDelete(sel, target.el) ELSE SetAdd(sel, target.el)
  ELSE IF target.class # "debug-info" THEN clearSelection ELSE selectedElements

PageSurface == {"text-layer", "page-image", "page-container"}

Idle == button = NoTarget /\ pendingClick = NoTarget

\* mutant: a press on a text element starts a drag too
MouseDownAnywhere(target, x, y, modifier) ==
  /\ Idle
  /\ target.class = "text-element" => Over(target.el, x, y)
  /\ target.class \in PageSurface => \A e \in TextElements : ~Over(e, x, y)
  /\ button' = target
  /\ IF target.class \in PageSurface \cup {"text-element"}
     THEN /\ isSelecting' = TRUE
          /\ startX' = x
          /\ startY' = y
          /\ selectedElements' = IF ~modifier THEN clearSelection ELSE selectedElements
     ELSE UNCHANGED <<isSelecting, startX, startY, selectedElements>>
  /\ last' = [op |-> "mousedown", target |-> target, modifier |-> modifier]
  /\ UNCHANGED <<selectionBox, pendingClick, boxElements, clipboardWrites>>
  /\ UNCHANGED <<appVars, pdfVars>>

\* mousedown handler; a press on the page surface is a press on no text element
MouseDown(target, x, y, modifier) ==
  /\ Idle
  /\ target.class = "text-element" => Over(target.el, x, y)
  /\ target.class \in PageSurface => \A e \in TextElements : ~Over(e, x, y)
  /\ button' = target
  /\ IF target.class \in PageSurface
     THEN /\ isSelecting' = TRUE
          /\ startX' = x
          /\ startY' = y
          /\ selectedElements' = IF ~modifier THEN clearSelection ELSE selectedElements
     ELSE UNCHANGED <<isSelecting, startX, startY, selectedElements>>
  /\ last' = [op |-> "mousedown", target |-> target, modifier |-> modifier]
  /\ UNCHANGED <<selectionBox, pendingClick, boxElements, clipboardWrites>>
  /\ UNCHANGED <<appVars, pdfVars>>

\* mousemove handler (drag selection), the button held
MouseMove(x, y, modifier) ==
  /\ button # NoTarget
  /\ IF isSelecting /\ BeyondThreshold(x, y)
     THEN LET box == [left |-> Min(startX, x), top |-> Min(startY, y),
                      width |-> Abs(x - startX), height |-> Abs(y - startY)]
          IN /\ selectionBox' = box
             /\ boxElements' = IF selectionBox = Null THEN boxElements + 1 ELSE boxElements
             /\ selectedElements' = SelectOverlapping(selectedElements, 1, BoxRect(box), modifier)
             /\ last' = [op |-> "mousemove", modifier |-> modifier, dragged |-> TRUE]
     ELSE /\ UNCHANGED <<selectionBox, boxElements, selectedElements>>
          /\ last' = [op |-> "mousemove", modifier |-> modifier, dragged |-> FALSE]
  /\ UNCHANGED <<isSelecting, startX, startY, button, pendingClick, clipboardWrites>>
  /\ UNCHANGED <<appVars, pdfVars>>

\* mouseup handler; the browser then dispatches the click of this press and release
MouseUp(target) ==
  /\ button # NoTarget
  /\ IF isSelecting
     THEN /\ selectionBox' = Null
          /\ boxElements' = IF selectionBox # Null THEN boxElements - 1 ELSE boxElements
          /\ isSelecting' = FALSE
     ELSE UNCHANGED <<selectionBox, boxElements, isSelecting>>
  /\ button' = NoTarget
  /\ pendingClick' = ClickTarget(button, target)
  /\ last' = [op |-> "mouseup", drag |-> isSelecting, box |-> selectionBox]
  /\ UNCHANGED <<selectedElements, startX, startY, clipboardWrites>>
  /\ UNCHANGED <<appVars, pdfVars>>

\* click handler
Click(modifier) ==
  /\ pendingClick # NoTarget
  /\ selectedElements' = ClickSelection(pendingClick, modifier)
  /\ pendingClick' = NoTarget
  /\ last' = [op |-> "click", target |-> pendingClick, modifier |-> modifier,
               wasSelected |-> (pendingClick.class = "text-element"
                                /\ Has(selectedElements, pendingClick.el)),
               others |-> (\E e \in Range(selectedElements) : Element(e) # pendingClick),
               drag |-> last.drag, box |-> last.box]
  /\ UNCHANGED <<isSelecting, startX, startY, selectionBox, button, boxElements,
                 clipboardWrites>>
  /\ UNCHANGED <<appVars, pdfVars>>

\* Array.from(selectedElements).map(el => el.getAttribute('data-text')).join(' ')
RECURSIVE JoinTexts(_)
JoinTexts(sel) ==
  IF sel = <<>> THEN ""
  ELSE IF Len(sel) = 1 THEN DataText(sel[1])
  ELSE DataText(sel[1]) \o " " \o JoinTexts(Tail(sel))

Keys == {"c", "a", "Escape"}

\* Ctrl/Cmd+C with a selection: the handler calls writeText
Copies(key, modifier) == modifier /\ key = "c" /\ Len(selectedElements) > 0

\* keydown handler; written is the text handed to navigator.clipboard.writeText
KeyDown(key, modifier) ==
  /\ pendingClick = NoTarget
  /\ Copies(key, modifier) => clipboardWrites < MaxWrites
  /\ selectedElements' = IF ~modifier /\ key = "Escape" THEN clearSelection
                          ELSE selectedElements
  /\ clipboardWrites' = IF Copies(key, modifier) THEN clipboardWrites + 1
                         ELSE clipboardWrites
  /\ last' = [op |-> "keydown", key |-> key, modifier |-> modifier,
               written |-> IF Copies(key, modifier)
                           THEN JoinTexts(selectedElements) ELSE NoText]
  /\ UNCHANGED <<isSelecting, startX, startY, selectionBox, button, pendingClick,
                 boxElements>>
  /\ UNCHANGED <<appVars, pdfVars>>

\* the promise of writeText settles: resolved, the then callback alerts
\* 'Copied: ...'; rejected (permission denied), no callback is registered for
\* it and the rejection stays unhandled
ClipboardSettled(resolved) ==
  /\ clipboardWrites > 0
  /\ pendingClick = NoTarget
  /\ clipboardWrites' = clipboardWrites - 1
  /\ last' = [op |-> "clipboard", resolved |-> resolved,
               alert |-> IF resolved THEN "Copied" ELSE NoText]
  /\ UNCHANGED <<selectedElements, isSelecting, startX, startY, selectionBox, button,
                 pendingClick, boxElements>>
  /\ UNCHANGED <<appVars, pdfVars>>

(***************************************************************************)
(* PdfUploader (components/PdfUploader.js, both versions of the repository)*)
(***************************************************************************)
\* the two versions of the component, named by their upload function
Versions == {"handleFileUpload", "uploadFile"}

\* the file of a drop or of the file input: files[0], files.length > 0
PdfFiles == {[type |-> "application/pdf"], [type |-> "image/png"], [type |-> ""]}

InvalidFileAlert == "Please select a valid PDF file"
AuthenticationAlert == "Authentication required. Please log in first."

\* !file.type === 'application/pdf': !file.type is a boolean, and === of a
\* boolean and a string is false
NotTypeIsPdf(file) ==
  LET negated == IF file.type = "" THEN "true" ELSE "false"
  IN negated = "application/pdf"

\* the first test of the upload function
InvalidFile(file) == file = Null \/ NotTypeIsPdf(file)

API_BASE_URL == "https://api"
DownloadUrls == {"https://cdn/book.epub", "/api/download/1"}
StartsWithHttps(url) == url = "https://cdn/book.epub"

\* handleFileUpload prefixes a relative download_url, uploadFile keeps it
StoredUrl(version, url) ==
  IF version = "handleFileUpload" /\ ~StartsWithHttps(url) THEN API_BASE_URL \o url
  ELSE url

Completed(version) ==
  IF version = "uploadFile" THEN "Conversion completed successfully!"
  ELSE "Conversion complete!"

ErrorMessages ==
  {"Failed to fetch", "Server error", "Conversion failed", "No conversion ID provided",
   "Cannot read properties of undefined"}

ErrorStatus(message) == "Error: " \o message

\* an upload call in flight: at is the await or the timer it is suspended on,
\* awaited whether the upload function still awaits the pollStatus call,
\* live whether the PdfUploader that made the call is still mounted
Conversion(version, at, polls, awaited, live) ==
  [version |-> version, at |-> at, polls |-> polls, awaited |-> awaited, live |-> live]

UploaderState == <<isConverting, conversionStatus, progress, downloadUrl>>

\* the state setters of a call, dropped when its component is unmounted
SetUploader(live, converting, status, prog, url) ==
  IF live
  THEN /\ isConverting' = converting
       /\ conversionStatus' = status
       /\ progress' = prog
       /\ downloadUrl' = url
  ELSE UNCHANGED <<isConverting, conversionStatus, progress, downloadUrl>>

\* the catch block of the upload function; uploadFile also starts the timer
\* that leaves the converting state
Caught(c, call, message) ==
  /\ SetUploader(call.live, isConverting, ErrorStatus(message), 0, downloadUrl)
  /\ conversions' = IF call.version = "uploadFile"
                    THEN [conversions EXCEPT ![c].at = "errorTimer", ![c].awaited = FALSE]
                    ELSE Drop(conversions, c)

\* App.handleShowPdfUploader
handleShowPdfUploader ==
  /\ ~isReading /\ ~showPdfUploader
  /\ showPdfUploader' = TRUE
  /\ last' = [op |-> "showPdfUploader"]
  /\ UNCHANGED <<isConverting, conversionStatus, downloadUrl, progress, conversions>>
  /\ UNCHANGED <<appVars, selVars>>

\* handleDrop / handleFileInput: the upload function up to its fetch.  The
\* drop zone is rendered when !isConverting && !downloadUrl; hasToken is
\* user?.token of uploadFile
Upload(version, file, hasToken) ==
  /\ showPdfUploader
  /\ ~isConverting /\ downloadUrl = ""
  /\ Len(conversions) < MaxConversions
  /\ LET alert == IF InvalidFile(file) THEN InvalidFileAlert
                  ELSE IF version = "uploadFile" /\ ~hasToken THEN AuthenticationAlert
                  ELSE NoText
     IN /\ IF alert # NoText
           THEN UNCHANGED <<isConverting, conversionStatus, progress, downloadUrl,
                            conversions>>
           ELSE /\ SetUploader(TRUE, TRUE, "Processing PDF...", 40, downloadUrl)
                /\ conversions' = Append(conversions,
                                         Conversion(version, "convert", 0, FALSE, TRUE))
        /\ last' = [op |-> "upload", file |-> file, alert |-> alert,
                    sent |-> (alert = NoText), pre |-> UploaderState]
  /\ UNCHANGED showPdfUploader
  /\ UNCHANGED <<appVars, selVars>>

\* the answers of POST /api/convert: the fetch rejects, an HTTP error status,
\* success false, success with download_url, success with conversion_id only,
\* success with neither
ConvertResponses == {"rejected", "notOk", "failure", "url", "id", "noId"}

\* the upload function from the answer of /api/convert up to its next await
ConvertResponded(c, response, url) ==
  LET call == conversions[c]
      generating == IF call.version = "uploadFile" THEN 70 ELSE 80
  IN /\ call.at = "convert"
     /\ IF response = "rejected" THEN Caught(c, call, "Failed to fetch")
        ELSE IF response = "notOk"
        THEN Caught(c, call, IF call.version = "uploadFile" THEN "Server error"
                             ELSE "Conversion failed")
        ELSE IF response = "failure" THEN Caught(c, call, "Conversion failed")
        ELSE IF response = "url"
        THEN /\ SetUploader(call.live, isConverting, Completed(call.version), 100,
                            StoredUrl(call.version, url))
             /\ conversions' = Drop(conversions, c)
        ELSE IF response = "noId" /\ call.version = "uploadFile"
        THEN Caught(c, call, "No conversion ID provided")
        ELSE /\ SetUploader(call.live, isConverting, "Generating EPUB...", generating,
                            downloadUrl)
             /\ conversions' =
                  [conversions EXCEPT ![c].at = "status", ![c].polls = 1,
                                      ![c].awaited = (call.version = "handleFileUpload")]
     /\ last' = [op |-> "convert", response |-> response]
     /\ UNCHANGED showPdfUploader
     /\ UNCHANGED <<appVars, selVars>>

StatusValues == {"processing", "completed", "failed"}

\* pollStatus from the answer of /api/status up to its end; url is
\* statusData.download_url, NoText when the answer has none.  In uploadFile
\* the call is not awaited and what it throws is an unhandled rejection; in
\* handleFileUpload the first call is awaited and what it throws is caught.
StatusResponded(c, status, url) ==
  LET call == conversions[c]
      again == [conversions EXCEPT ![c].at = "timer", ![c].awaited = FALSE]
      next == IF call.version = "uploadFile"
              THEN IF status = "completed" /\ url # NoText THEN "done"
                   ELSE IF status = "failed" THEN "thrown"
                   ELSE "timer"
              ELSE IF status = "completed"
                   THEN IF url # NoText THEN "done" ELSE "thrown"
                   ELSE "timer"
  IN /\ call.at = "status"
     /\ IF next = "done"
        THEN /\ SetUploader(call.live, isConverting, Completed(call.version), 100,
                            StoredUrl(call.version, url))
             /\ conversions' = Drop(conversions, c)
        ELSE IF next = "timer"
        THEN /\ conversions' = again
             /\ UNCHANGED <<isConverting, conversionStatus, progress, downloadUrl>>
        ELSE IF call.version = "uploadFile"
        THEN /\ conversions' = Drop(conversions, c)
             /\ UNCHANGED <<isConverting, conversionStatus, progress, downloadUrl>>
        ELSE IF call.awaited
        THEN Caught(c, call, "Cannot read properties of undefined")
        ELSE /\ SetUploader(call.live, isConverting, Completed(call.version), 100,
                            downloadUrl)
             /\ conversions' = Drop(conversions, c)
     /\ last' = [op |-> "status", status |-> status, url |-> url, live |-> call.live,
                 next |-> next]
     /\ UNCHANGED showPdfUploader
     /\ UNCHANGED <<appVars, selVars>>

\* setTimeout(() => pollStatus(conversionId), ...): pollStatus up to its fetch
PollTimer(c) ==
  /\ conversions[c].at = "timer"
  /\ conversions[c].polls < MaxPolls
  /\ conversions' = [conversions EXCEPT ![c].at = "status", ![c].polls = @ + 1]
  /\ last' = [op |-> "pollTimer"]
  /\ UNCHANGED <<showPdfUploader, isConverting, conversionStatus, downloadUrl, progress>>
  /\ UNCHANGED <<appVars, selVars>>

\* the timer of the catch block of uploadFile
ErrorTimer(c) ==
  /\ conversions[c].at = "errorTimer"
  /\ SetUploader(conversions[c].live, FALSE, "", progress, downloadUrl)
  /\ conversions' = Drop(conversions, c)
  /\ last' = [op |-> "errorTimer"]
  /\ UNCHANGED showPdfUploader
  /\ UNCHANGED <<appVars, selVars>>

\* 'Convert Another PDF'
resetUploader ==
  /\ showPdfUploader
  /\ downloadUrl # ""
  /\ SetUploader(TRUE, FALSE, "", 0, "")
  /\ last' = [op |-> "reset"]
  /\ UNCHANGED <<showPdfUploader, conversions>>
  /\ UNCHANGED <<appVars, selVars>>

(***************************************************************************)
(* Specifications                                                          *)
(***************************************************************************)
Next ==
  \/ ~isReading /\ \E f \in Library : SelectFile(f)
  \/ ClickSample
  \/ SampleFetched
  \/ SampleFailed
  \/ handleBackToLibrary
  \/ \E k \in 1..Len(loads) : ZipLoaded(k)
  \/ \E k \in 1..Len(loads) : ContainerRead(k)
  \/ \E k \in 1..Len(loads) : OpfRead(k)
  \/ \E k \in 1..Len(loads) : PageRead(k)
  \/ \E i \in -1..(MaxSpine + 1) : PageChange(i)
  \/ \E i \in 0..(MaxSpine - 1) : TocSelect(i)
  \/ \E via \in Via : PreviousPage(via)
  \/ \E via \in Via : NextPage(via)

Spec == Init /\ [][Next]_vars

\* the parser alone: every fault-free package over Ids with at most MaxSpine
\* itemrefs and packages with each fault, one load at a time
NextParse ==
  \/ ~isReading /\ \E refs \in SeqsUpTo(IdRefs, MaxSpine), kinds \in [Ids -> Kinds] :
                      SelectFile(Package(NoText, "none", refs, kinds))
  \/ ~isReading /\ \E fault \in Faults \ {"none"}, kinds \in [Ids -> {"absent", "ok"}] :
                      SelectFile(Package(NoText, fault, <<"p1", "p2", "p3">>, kinds))
  \/ \E k \in 1..Len(loads) : ZipLoaded(k)
  \/ \E k \in 1..Len(loads) : ContainerRead(k)
  \/ \E k \in 1..Len(loads) : OpfRead(k)
  \/ \E k \in 1..Len(loads) : PageRead(k)
  \/ handleBackToLibrary

SpecParse == Init /\ [][NextParse]_vars

\* the reader on a book with images, one load at a time
NextView ==
  \/ ~isReading /\ SelectFile(BookView)
  \/ \E k \in 1..Len(loads) : ZipLoaded(k)
  \/ \E k \in 1..Len(loads) : ContainerRead(k)
  \/ \E k \in 1..Len(loads) : OpfRead(k)
  \/ \E k \in 1..Len(loads) : PageRead(k)
  \/ handleBackToLibrary
  \/ \E i \in 0..(MaxSpine - 1) : TocSelect(i)
  \/ \E via \in Via : PreviousPage(via)
  \/ \E via \in Via : NextPage(via)
  \/ Scroll
  \/ \E r \in 1..Len(renders) : ImageRead(r)

SpecView == Init /\ [][NextView]_vars

\* the selection page
NextSel ==
  \/ Idle /\ \E t \in Targets, x \in PointerXs, y \in PointerYs, m \in BOOLEAN :
               MouseDown(t, x, y, m)
  \/ button # NoTarget /\ \E x \in PointerXs, y \in PointerYs, m \in BOOLEAN :
                             MouseMove(x, y, m)
  \/ button # NoTarget /\ \E t \in Targets : MouseUp(t)
  \/ \E m \in BOOLEAN : Click(m)
  \/ \E k \in Keys, m \in BOOLEAN : KeyDown(k, m)
  \/ \E resolved \in BOOLEAN : ClipboardSettled(resolved)

SpecSel == Init /\ [][NextSel]_vars

\* the selection engine at work on the pages the reader displays; the click
\* of a press and release is dispatched right after the mouseup
NextRead ==
  \/ ~isReading /\ SelectFile(BookB)
  \/ \E k \in 1..Len(loads) : ZipLoaded(k)
  \/ \E k \in 1..Len(loads) : ContainerRead(k)
  \/ \E k \in 1..Len(loads) : OpfRead(k)
  \/ \E k \in 1..Len(loads) : PageRead(k)
  \/ pendingClick = NoTarget /\ \E i \in 0..(MaxSpine - 1) : TocSelect(i)
  \/ pendingClick = NoTarget /\ \E via \in Via : PreviousPage(via)
  \/ pendingClick = NoTarget /\ \E via \in Via : NextPage(via)
  \/ Len(pages) > 0 /\ Idle /\ \E t \in Targets, x \in PointerXs, y \in PointerYs, m \in BOOLEAN :
                                  MouseDown(t, x, y, m)
  \/ button # NoTarget /\ \E x \in PointerXs, y \in PointerYs, m \in BOOLEAN :
                             MouseMove(x, y, m)
  \/ button # NoTarget /\ \E t \in Targets : MouseUp(t)
  \/ \E m \in BOOLEAN : Click(m)

SpecRead == Init /\ [][NextRead]_vars

\* the PDF uploader
NextPdf ==
  \/ handleShowPdfUploader
  \/ handleBackToLibrary
  \/ \E version \in Versions, file \in PdfFiles, hasToken \in BOOLEAN :
       Upload(version, file, hasToken)
  \/ \E c \in 1..Len(conversions), response \in ConvertResponses, url \in DownloadUrls :
       ConvertResponded(c, response, url)
  \/ \E c \in 1..Len(conversions), status \in StatusValues,
        url \in DownloadUrls \cup {NoText} : StatusResponded(c, status, url)
  \/ \E c \in 1..Len(conversions) : PollTimer(c)
  \/ \E c \in 1..Len(conversions) : ErrorTimer(c)
  \/ resetUploader

SpecPdf == Init /\ [][NextPdf]_vars

(***************************************************************************)
(* Properties                                                              *)
(***************************************************************************)
Readable(p, href) == href \in DOMAIN p.entries /\ p.entries[href] = "ok"

Hrefs(s) == [k \in 1..Len(s) |-> s[k].href]

RECURSIVE IsSubsequence(_, _)
IsSubsequence(a, b) ==
  IF a = <<>> THEN TRUE
  ELSE IF b = <<>> THEN FALSE
  ELSE IF Head(a) = Head(b) THEN IsSubsequence(Tail(a), Tail(b))
  ELSE IsSubsequence(a, Tail(b))

Faulty(p) == p.fault # "none"

AllLoadsFinished == isReading /\ loads = <<>>

\* C1: once every parseEpub started on the reader has finished, what the
\* reader holds is what the most recently started load (the load of epubFile)
\* produces: its pages, epubData and bookMetadata, no error and isLoading
\* false, or its error when it fails; nothing of a superseded load is there.
C1_LatestLoadWins ==
  AllLoadsFinished =>
    /\ ~isLoading
    /\ IF Faulty(epubFile)
       THEN error = ParseError
       ELSE /\ error = NoText
            /\ epubData = EpubDataOf(epubFile, BuildSpine(epubFile.manifest, epubFile.itemrefs))
            /\ pages = ReadPages(epubFile, epubData.spine, 0, <<>>)
            /\ bookMetadata = Metadata(epubFile)
            /\ last.op = "committed" => currentPageIndex = 0

\* C2: after a successful load there are no more pages than spine items, the
\* hrefs of pages are a subsequence of the hrefs of the spine, and pages are
\* exactly the spine items of media type application/xhtml+xml whose content
\* read succeeded, in spine order.
C2_PagesFollowSpine ==
  epubData # Null =>
    LET markup == SelectSeq(epubData.spine,
                            LAMBDA item : item.mediaType = XHTML
                                          /\ Readable(epubData.zip, item.href))
    IN /\ Len(pages) <= Len(epubData.spine)
       /\ IsSubsequence(Hrefs(pages), Hrefs(epubData.spine))
       /\ Hrefs(pages) = Hrefs(markup)
       /\ \A k \in 1..Len(pages) : pages[k].id = markup[k].id

\* a load whose spine has an item of another media type and an unreadable
\* markup item among three pages' worth of spine, two of them read
C2_Witness ==
  /\ last.op = "committed"
  /\ Len(epubData.spine) = 3
  /\ Len(pages) = 2
  /\ epubData.spine[2].mediaType = XHTML
  /\ pages[2].href = epubData.spine[3].href

\* C3: the spine parseEpub builds lists, in the order of the itemrefs,
\* exactly the itemrefs whose idref is an id of the manifest.
C3_SpineIsResolvableItemrefs ==
  epubData # Null =>
    LET resolvable == SelectSeq(epubData.zip.itemrefs,
                                LAMBDA idref : idref \in DOMAIN epubData.zip.manifest)
    IN [k \in 1..Len(epubData.spine) |-> epubData.spine[k].id] = resolvable

BookDisplayed == isReading /\ error = NoText /\ epubData # Null

\* C4 as stated: whenever a loaded Book is displayed,
\* 0 <= currentPageIndex < pages.length, and the index is 0 right after each
\* successful load.
C4_IndexWithinPages ==
  BookDisplayed =>
    /\ 0 <= currentPageIndex /\ currentPageIndex < Len(pages)
    /\ last.op = "committed" => currentPageIndex = 0

\* C4 amended: whenever a loaded Book is displayed, currentPageIndex is 0 if
\* the Book has no page and 0 <= currentPageIndex < pages.length otherwise,
\* and the index is 0 right after each successful load.
C4_IndexWithinPagesOrZero ==
  BookDisplayed =>
    /\ IF pages = <<>> THEN currentPageIndex = 0
       ELSE 0 <= currentPageIndex /\ currentPageIndex < Len(pages)
    /\ last.op = "committed" => currentPageIndex = 0

\* the sample book is displayed and next has moved the user from its first
\* page to its last page
C4_Witness ==
  /\ BookDisplayed
  /\ epubData.zip = SampleEpub
  /\ last.op = "next"
  /\ last.pre = 0
  /\ currentPageIndex = Len(pages) - 1
  /\ currentPageIndex > 0

NavigationOps == {"goTo", "toc", "previous", "next"}

OutOfRange(i) == i < 0 \/ i >= Len(pages)

\* C5 as stated: handlePageChange(i) with i out of range leaves the index
\* unchanged; previous at index 0 and next at index pages.length-1 leave it
\* unchanged, and otherwise previous and next move it by exactly one.
C5_BoundedNavigation ==
  last.op \in NavigationOps =>
    /\ last.op \in {"goTo", "toc"} /\ OutOfRange(last.arg) => currentPageIndex = last.pre
    /\ last.op = "previous" =>
         currentPageIndex = IF last.pre = 0 THEN last.pre ELSE last.pre - 1
    /\ last.op = "next" =>
         currentPageIndex = IF last.pre = Len(pages) - 1 THEN last.pre ELSE last.pre + 1

\* C5 amended: as stated, except that next also leaves the index unchanged
\* when there are no pages (index 0, pages.length 0).
C5_BoundedNavigationOrNoPages ==
  last.op \in NavigationOps =>
    /\ last.op \in {"goTo", "toc"} /\ OutOfRange(last.arg) => currentPageIndex = last.pre
    /\ last.op = "previous" =>
         currentPageIndex = IF last.pre = 0 THEN last.pre ELSE last.pre - 1
    /\ last.op = "next" =>
         currentPageIndex = IF last.pre = Len(pages) - 1 \/ pages = <<>>
                            THEN last.pre ELSE last.pre + 1

\* an arrow key pressed on the last page of a two-page book
C5_Witness ==
  /\ last.op = "next"
  /\ last.arg = "key"
  /\ Len(pages) = 2
  /\ last.pre = 1
  /\ currentPageIndex = 1

\* the rectangle spanning the start point and the pointer
SpanRect(box) ==
  [left |-> box.left, top |-> box.top,
   right |-> box.left + box.width, bottom |-> box.top + box.height]

\* C6: after a pointer move beyond the threshold with no modifier key, a text
\* element is selected if and only if its bounding rectangle intersects, by
\* strict inequalities, the rectangle spanning the start point and the
\* pointer; an element that only touches an edge is not selected.
C6_DragSelectsIntersecting ==
  last.op = "mousemove" /\ last.dragged /\ ~last.modifier =>
    \A e \in TextElements :
      Has(selectedElements, e) <=>
        isInSelection(ElementRect(e, selectedElements), SpanRect(selectionBox))

\* C7: after the mouseup of a drag and the click that follows it, the engine
\* is idle, the drag rectangle is gone and the selected elements are exactly
\* those that intersected the final drag rectangle.
C7_SelectionSurvivesDrag ==
  last.op = "click" /\ last.drag /\ last.box # Null =>
    /\ ~isSelecting
    /\ selectionBox = Null
    /\ \A e \in TextElements :
         Has(selectedElements, e) <=>
           isInSelection(ElementRect(e, selectedElements), BoxRect(last.box))

DocumentOrder(sel) == SelectSeq(<<1, 2, 3>>, LAMBDA e : Has(sel, e))

\* no drag was ever started: the selection was built by clicks alone
BuiltByClicks == startX = UndefinedCoord

\* C8: for a selection built by clicks, the text copy hands to the clipboard
\* is the texts of the selected elements in document order, joined by single
\* spaces.
C8_CopyInDocumentOrder ==
  last.op = "keydown" /\ last.written # NoText /\ BuiltByClicks =>
    last.written = JoinTexts(DocumentOrder(selectedElements))

ClickedElement == last.op = "click" /\ last.target.class = "text-element"

\* C9: a click without modifier key on a text element that is not selected
\* leaves exactly that element selected, whatever was selected before.
C9_ClickSelectsOnlyClicked ==
  ClickedElement /\ ~last.modifier /\ ~last.wasSelected =>
    selectedElements = <<last.target.el>>

\* another element was selected when the second element was clicked
C9_Witness ==
  /\ ClickedElement
  /\ ~last.modifier
  /\ ~last.wasSelected
  /\ last.others
  /\ last.target.el = 2
  /\ selectedElements = <<2>>

\* C10: a click without modifier key on a text element that is selected
\* clears the other selections and removes the clicked element: the clicked
\* element ends up not selected.
C10_ClickTogglesSelected ==
  ClickedElement /\ ~last.modifier /\ last.wasSelected =>
    ~Has(selectedElements, last.target.el)

\* C11: after an Escape keydown the selected set is empty, in every state
\* (idle or dragging, any selection) and whatever modifier keys are held
\* together with Escape.
C11_EscapeClears ==
  last.op = "keydown" /\ last.key = "Escape" => selectedElements = <<>>

\* C12: after the select-all keydown (Ctrl+A or Cmd+A) the selected set is
\* every text element of the page, whatever was selected before.
C12_SelectAll ==
  last.op = "keydown" /\ last.key = "a" /\ last.modifier =>
    Range(selectedElements) = TextElements

PageChanged == last.op \in NavigationOps /\ currentPageIndex # last.pre

C14_PageChangeScrollsToTop ==
  \/ PageChanged /\ last.shown
  \/ last.op = "imageRead" /\ last.shown
  => scrollTop = 0

\* C15: an arrow key pressed while the focus is in a text input never changes
\* currentPageIndex.
C15_ArrowKeysRespectFocus ==
  last.op \in {"previous", "next"} /\ last.arg = "input" => currentPageIndex = last.pre

ContainerFaults == {"nocontainer", "badcontainer", "badcontainerRootfile", "norootfile"}

DescriptorFaults == {"noopf", "badopf"}

\* the load of the one file given to the mounted reader has ended
LoadEnded == isReading /\ loads = <<>>

\* C16: when META-INF/container.xml is missing, is not well-formed or has no
\* rootfile element, the load writes none of pages, epubData, bookMetadata
\* and currentPageIndex, and ends with error set and isLoading false.
C16_ContainerFaultAborts ==
  isReading /\ epubFile.fault \in ContainerFaults =>
    /\ pages = <<>>
    /\ epubData = Null
    /\ bookMetadata = EmptyObject
    /\ currentPageIndex = 0
    /\ LoadEnded => error = ParseError /\ ~isLoading

\* C17: when the package descriptor is missing or is not well-formed, the
\* load commits no pages, epubData or bookMetadata and ends with error set.
C17_DescriptorFaultAborts ==
  isReading /\ epubFile.fault \in DescriptorFaults =>
    /\ pages = <<>>
    /\ epubData = Null
    /\ bookMetadata = EmptyObject
    /\ LoadEnded => error = ParseError

MarkupItems(p) ==
  SelectSeq(BuildSpine(p.manifest, p.itemrefs), LAMBDA item : item.mediaType = XHTML)

\* C18: the load of a package with a markup spine item whose content cannot
\* be read ends without error and with isLoading false, and its pages are
\* all the other markup spine items, in spine order.
C18_UnreadableItemOnlyOmitted ==
  /\ LoadEnded
  /\ epubFile.fault = "none"
  /\ \E n \in 1..Len(MarkupItems(epubFile)) :
        ~Readable(epubFile, MarkupItems(epubFile)[n].href)
  => /\ error = NoText
     /\ ~isLoading
     /\ epubData # Null
     /\ Hrefs(pages) =
          Hrefs(SelectSeq(MarkupItems(epubFile), LAMBDA item : Readable(epubFile, item.href)))

\* reading the second of three markup items rejected, the first and the
\* third are the pages
C18_Witness ==
  /\ LoadEnded
  /\ epubFile.fault = "none"
  /\ error = NoText
  /\ Len(MarkupItems(epubFile)) = 3
  /\ MarkupItems(epubFile)[2].href \in DOMAIN epubFile.entries
  /\ epubFile.entries[MarkupItems(epubFile)[2].href] = "corrupt"
  /\ Len(pages) = 2
  /\ pages[1].href = MarkupItems(epubFile)[1].href
  /\ pages[2].href = MarkupItems(epubFile)[3].href

\* C19: an image path is resolved once for the Book's lifetime: no path is
\* read from the archive and given an object URL a second time, so every
\* later resolution returns the URI of the first.
C19_AssetResolvedOnce ==
  \A i, j \in 1..Len(objectUrls) : objectUrls[i] = objectUrls[j] => i = j

\* C20: a click whose target is not a text element empties the selected set
\* when the target is inside the reading surface (the page container) and
\* leaves the selected set unchanged when the target is outside of it.
C20_ClickOutsideElements ==
  [][pendingClick # NoTarget /\ pendingClick' = NoTarget
       /\ pendingClick.class # "text-element"
     => IF pendingClick.class \in PageSurface
        THEN selectedElements' = <<>>
        ELSE selectedElements' = selectedElements]_vars

\* C21: when the clipboard write of a copy fails, the failure is reported to
\* the user, and the selected set, the drag state and the current page are
\* unchanged.
C21_ClipboardFailureReported ==
  [][clipboardWrites' < clipboardWrites /\ ~last'.resolved
     => /\ last'.alert # NoText
        /\ UNCHANGED <<selectedElements, isSelecting, selectionBox, startX, startY,
                       currentPageIndex>>]_vars

\* C22: a click on a text element with Ctrl/Cmd held toggles the membership
\* of the clicked element and leaves the membership of every other element
\* unchanged.
C22_ModifierClickTogglesOne ==
  [][/\ pendingClick.class = "text-element"
     /\ pendingClick' = NoTarget
     /\ last'.modifier
     => /\ Has(selectedElements', pendingClick.el) <=> ~Has(selectedElements, pendingClick.el)
        /\ \A e \in TextElements \ {pendingClick.el} :
              Has(selectedElements', e) <=> Has(selectedElements, e)]_vars

C22_Witness ==
  /\ last.op = "click"
  /\ last.target.class = "text-element"
  /\ last.modifier
  /\ last.others
  /\ Len(selectedElements) >= 2

\* the press or the pointer move of a drag, made with the modifier key held
ModifierDragStep ==
  /\ last'.op \in {"mousedown", "mousemove"}
  /\ last'.modifier
  /\ isSelecting'

\* C23: with the modifier key held, the press and every pointer move of a drag
\* remove no element from the selected set, and a move adds the elements that
\* intersect the drag rectangle.
C23_AdditiveDragOnlyGrows ==
  [][ModifierDragStep
     => /\ Range(selectedElements) \subseteq Range(selectedElements')
        /\ last'.op = "mousemove" /\ last'.dragged
           => \A e \in TextElements :
                isInSelection(ElementRect(e, selectedElements), BoxRect(selectionBox'))
                => Has(selectedElements', e)]_vars

C23_Witness ==
  /\ last.op = "mousemove"
  /\ last.modifier
  /\ last.dragged
  /\ \E e \in Range(selectedElements) :
       ~isInSelection(ElementRect(e, selectedElements), BoxRect(selectionBox))
  /\ \E e \in Range(selectedElements) :
       isInSelection(ElementRect(e, selectedElements), BoxRect(selectionBox))

PageNumber(k) == "Page " \o ToString(k)

\* C25: the title of every page is "Page N", N the 1-based position of the
\* page in pages, the label the table of contents shows for it.
C25_TitleIsPagePosition ==
  epubData # Null => \A k \in 1..Len(pages) : pages[k].title = PageNumber(k)

\* the images processPageContent replaces by object URLs
Rewritten(data, node) ==
  /\ node.tag = "img"
  /\ node.src # NoText
  /\ node.src \notin AbsoluteSrcs
  /\ node.src \in DOMAIN data.zip.assets
  /\ data.zip.assets[node.src] = "ok"

\* doc is what processPageContent displays for page
IsProcessed(doc, page, data) ==
  IF page.content = <<>> THEN doc = NoContent
  ELSE /\ Len(doc) = Len(page.content)
       /\ \A k \in 1..Len(doc) :
            /\ doc[k].tag = page.content[k].tag
            /\ doc[k].text = page.content[k].text
            /\ IF Rewritten(data, page.content[k])
               THEN \E n \in 1..Len(objectUrls) : doc[k].src = ObjectUrl(n)
               ELSE doc[k].src = page.content[k].src

\* C26: once every processPageContent call has completed, the content
\* displayed is the processed content of pages[currentPageIndex].
C26_DisplayedIsCurrentPage ==
  /\ ViewerShown
  /\ renders = <<>>
  /\ currentPageIndex + 1 \in 1..Len(pages)
  => IsProcessed(processedContent, pages[currentPageIndex + 1], epubData)

\* C27: in every state of a mounted EpubReader, bookMetadata, pages and
\* epubData are those of one load, or all three are still empty.
C27_BookIsOneLoad ==
  isReading =>
    \/ bookMetadata = EmptyObject /\ pages = <<>> /\ epubData = Null
    \/ /\ epubData # Null
       /\ bookMetadata = epubData.metadata
       /\ pages = ReadPages(epubData.zip, epubData.spine, 0, <<>>)

\* C29: the answer 'completed' of the status endpoint sets the download URL,
\* the answer 'failed' shows an error, and after either no further status
\* request of the conversion is scheduled.
C29_PollingStops ==
  last.op = "status" /\ last.live =>
    /\ last.status = "completed" /\ last.url # NoText
       => downloadUrl # "" /\ last.next # "timer"
    /\ last.status = "failed"
       => /\ conversionStatus \in {ErrorStatus(m) : m \in ErrorMessages}
          /\ last.next # "timer"

\* C30: for a file whose type is not application/pdf the uploader raises the
\* 'Please select a valid PDF file' alert, sends no conversion request and
\* leaves isConverting, conversionStatus, progress and downloadUrl unchanged.
C30_NonPdfRejected ==
  last.op = "upload" /\ last.file.type # "application/pdf" =>
    /\ last.alert = InvalidFileAlert
    /\ ~last.sent
    /\ UploaderState = last.pre

====
